---- MODULE Spec2Model ----
(***************************************************************************)
(* A model of three parts of the PBS attribute subsystem:                  *)
(*   - decode_DIS_attropl   (src/src/lib/Libifl/dec_attropl.c)             *)
(*   - decode_rcost, encode_rcost, set_rcost, free_rcost                   *)
(*                          (src/src/server/svr_resccost.c)                *)
(*   - que_save_db, que_recov_db (src/src/server/queue_recov_db.c)         *)
(* Each part has its own specification (SpecDec, SpecCost, SpecQue); the   *)
(* variables of the other parts stay at their initial values.  The         *)
(* resource cost functions are also run on drawn inputs (SpecSet,          *)
(* SpecAssoc, SpecTrip, SpecEnc, SpecFree).                                *)
(***************************************************************************)
EXTENDS Integers, Sequences, FiniteSets, TLC

(***************************************************************************)
(* Bounds of the model.                                                    *)
(***************************************************************************)
\* largest magnitude of a cost taken through decode, encode and decode
MaxTripCost == 12
\* largest magnitude of a cost handed to repeated INCR or DECR calls
MaxOperand == 5
\* largest entry count the transport announces
MaxEntries == 2
\* largest magnitude of a cost an attribute holds
MaxCost == 1
\* set_rcost: the latest malloc of one call that may be made to fail
MaxMallocFail == 2
\* number of attributes of a queue (QA_ATR_LAST of queue.h)
QA_ATR_LAST == 2

(***************************************************************************)
(* Values shared by the parts.                                             *)
(***************************************************************************)
\* the null pointer
NULL == 0
\* a char * that is null
NullStr == "<null>"

VARIABLES
    \* ---- decode_DIS_attropl ----
    dpc,        \* position in decode_DIS_attropl
    di,         \* i
    numpat,     \* numpat
    pat,        \* pat
    patprior,   \* patprior
    drc,        \* rc
    hasresc,    \* hasresc
    heap,       \* the attropl entries malloc'ed by the call, by id 1..Len(heap)
    nfree,      \* nfree[id]: how many times entry id was passed to free()
    ppatt,      \* *ppatt, the caller's head
    ppatt0,     \* *ppatt as it was when the call was made
    trace,      \* the transport reads and the mallocs made, in order
    dret,       \* the value returned
    \* ---- resource cost attributes ----
    attr,       \* attr[a]: at_flags and the at_list of resource_cost entries
    cret,       \* the value the last call returned
    \* ---- que_save_db and que_recov_db ----
    qpc,        \* position in que_save_db or que_recov_db, or "idle"
    qcall,      \* the call being made, or the last one made
    qlast,      \* <<q>> when the call before qcall was a que_save_db(q,
                \* QUE_SAVE_NEW) whose store calls all succeeded, else <<>>
    calls,      \* the store calls of qcall, in order, with their status
    db,         \* the store's committed rows and attribute rows
    dbw,        \* the store as the open transaction sees it
    intrx,      \* a transaction is open on the connection
    dbque,      \* the local pbs_db_que_info_t
    flag,       \* que_save_db's flag
    pq,         \* que_recov_db's pq: <<>> is NULL
    qfrees,     \* que_free calls made by qcall
    qret,       \* what qcall returned
    panics,     \* panic_stop_db calls made
    \* ---- runs of the resource cost functions on drawn inputs ----
    spc,        \* how far the run has come
    sin,        \* the inputs of the run
    sx,         \* the attribute the run works on
    sy,         \* the attribute of the run's other path, or an earlier sx
    sout,       \* what encode_rcost appended and returned
    srel        \* srel[id]: how many times entry id was passed to free()

dvars == <<dpc, di, numpat, pat, patprior, drc, hasresc, heap, nfree, ppatt,
           ppatt0, trace, dret>>

cvars == <<attr, cret>>

qvars == <<qpc, qcall, qlast, calls, db, dbw, intrx, dbque, flag, pq, qfrees,
           qret, panics>>

svars == <<spc, sin, sx, sy, sout, srel>>

vars == <<dvars, cvars, qvars, svars>>

(***************************************************************************)
(* decode_DIS_attropl                                                      *)
(***************************************************************************)
\* status codes of the DIS transport (dis.h)
DIS_SUCCESS == 0
DIS_EOD == 7
DIS_NOMALLOC == 8

\* what the stream can carry
WireNames == {"Priority", "Resource_List"}
WireRescs == {"ncpus"}
WireValues == {"1", "2"}
WireOps == {0, 2}
WireFlags == {0, 1}
WireCounts == 0..MaxEntries

\* a head the caller held before the call, not an entry of this call
PriorHead == NULL - 1

\* one event of the trace
Ev(f, rc, n, s) == [f |-> f, rc |-> rc, n |-> n, s |-> s]

\* disrui(sock, &rc): an unsigned integer from vals, or a failure
disrui(f, vals) ==
    {Ev(f, DIS_SUCCESS, v, NullStr) : v \in vals} \cup {Ev(f, DIS_EOD, 0, NullStr)}

\* disrst(sock, &rc): an owned string from vals, or null and a failure
disrst(f, vals) ==
    {Ev(f, DIS_SUCCESS, 0, v) : v \in vals} \cup {Ev(f, DIS_EOD, 0, NullStr)}

\* the for loop's test, i < numpat
LoopTest(i, n) == IF i < n THEN "size" ELSE "exit"

\* PBS_free_aopl(p): walk the next links from p and free every entry
RECURSIVE PBS_free_aopl(_, _, _, _)
PBS_free_aopl(hp, nf, p, fuel) ==
    IF p = NULL \/ p \notin 1..Len(hp) \/ fuel = 0 THEN nf
    ELSE PBS_free_aopl(hp, [nf EXCEPT ![p] = @ + 1], hp[p].next, fuel - 1)

\* lines 126-132 with the wrong entry handed to the caller: every entry
\* overwrites the head
LinkEntryAlwaysHead(hp, head, prior, p, i) ==
    [heap |-> hp, head |-> p]

\* lines 126-132: link the finished entry behind the prior one, or hand it
\* to the caller when it is the first
LinkEntry(hp, head, prior, p, i) ==
    IF i = 0 THEN [heap |-> hp, head |-> p]
    ELSE [heap |-> [hp EXCEPT ![prior].next = p], head |-> head]

\* the state as the call is made, *ppatt holding h
DecStart(h) ==
    /\ dpc = "count"
    /\ di = 0
    /\ numpat = 0
    /\ pat = NULL
    /\ patprior = NULL
    /\ drc = DIS_SUCCESS
    /\ hasresc = 0
    /\ heap = <<>>
    /\ nfree = <<>>
    /\ ppatt0 = h
    /\ ppatt = h
    /\ trace = <<>>
    /\ dret = DIS_SUCCESS

\* the caller's head is null or holds an earlier list
DecInit == \E h \in {NULL, PriorHead} : DecStart(h)

\* lines 93-94: numpat = disrui(sock, &rc); if (rc) return rc;
ReadCount ==
    /\ dpc = "count"
    /\ \E e \in disrui("count", WireCounts) :
        /\ trace' = Append(trace, e)
        /\ drc' = e.rc
        /\ numpat' = e.n
        /\ IF e.rc # DIS_SUCCESS
           THEN dpc' = "done" /\ dret' = e.rc
           ELSE dpc' = LoopTest(0, e.n) /\ dret' = dret
    /\ di' = 0
    /\ UNCHANGED <<pat, patprior, hasresc, heap, nfree, ppatt, ppatt0>>

\* lines 98-99: (void) disrui(sock, &rc); if (rc) break;
ReadSize ==
    /\ dpc = "size"
    /\ \E e \in disrui("size", {1}) :
        /\ trace' = Append(trace, e)
        /\ drc' = e.rc
        /\ dpc' = IF e.rc # DIS_SUCCESS THEN "exit" ELSE "malloc"
    /\ UNCHANGED <<di, numpat, pat, patprior, hasresc, heap, nfree, ppatt,
                   ppatt0, dret>>

\* lines 101-108: pat = malloc(...); if (pat == 0) return DIS_NOMALLOC;
\* the four pointer fields are cleared, op is left as malloc gave it
Malloc ==
    /\ dpc = "malloc"
    /\ \/ /\ trace' = Append(trace, Ev("malloc", DIS_NOMALLOC, 0, NullStr))
          /\ pat' = NULL
          /\ dpc' = "done"
          /\ dret' = DIS_NOMALLOC
          /\ UNCHANGED <<heap, nfree>>
       \/ \E garbage \in WireOps :
          /\ trace' = Append(trace, Ev("malloc", DIS_SUCCESS, 0, NullStr))
          /\ heap' = Append(heap, [name |-> NullStr, resource |-> NullStr,
                                   value |-> NullStr, op |-> garbage,
                                   next |-> NULL])
          /\ nfree' = Append(nfree, 0)
          /\ pat' = Len(heap) + 1
          /\ dpc' = "name"
          /\ dret' = dret
    /\ UNCHANGED <<di, numpat, patprior, drc, hasresc, ppatt, ppatt0>>

\* lines 110-111: pat->name = disrst(sock, &rc); if (rc) break;
ReadName ==
    /\ dpc = "name"
    /\ \E e \in disrst("name", WireNames) :
        /\ trace' = Append(trace, e)
        /\ drc' = e.rc
        /\ heap' = [heap EXCEPT ![pat].name = e.s]
        /\ dpc' = IF e.rc # DIS_SUCCESS THEN "exit" ELSE "hasresc"
    /\ UNCHANGED <<di, numpat, pat, patprior, hasresc, nfree, ppatt, ppatt0,
                   dret>>

\* lines 113-115 without the break: a failed read goes on to the value
ReadHasRescNoBreak ==
    /\ dpc = "hasresc"
    /\ \E e \in disrui("hasresc", WireFlags) :
        /\ trace' = Append(trace, e)
        /\ drc' = e.rc
        /\ hasresc' = e.n
        /\ dpc' = IF e.n # 0 THEN "resource" ELSE "value"
    /\ UNCHANGED <<di, numpat, pat, patprior, heap, nfree, ppatt, ppatt0,
                   dret>>

\* lines 113-115: hasresc = disrui(sock, &rc); if (rc) break; if (hasresc)
ReadHasResc ==
    /\ dpc = "hasresc"
    /\ \E e \in disrui("hasresc", WireFlags) :
        /\ trace' = Append(trace, e)
        /\ drc' = e.rc
        /\ hasresc' = e.n
        /\ dpc' = IF e.rc # DIS_SUCCESS THEN "exit"
                  ELSE IF e.n # 0 THEN "resource" ELSE "value"
    /\ UNCHANGED <<di, numpat, pat, patprior, heap, nfree, ppatt, ppatt0,
                   dret>>

\* lines 116-117: pat->resource = disrst(sock, &rc); if (rc) break;
ReadResource ==
    /\ dpc = "resource"
    /\ \E e \in disrst("resource", WireRescs) :
        /\ trace' = Append(trace, e)
        /\ drc' = e.rc
        /\ heap' = [heap EXCEPT ![pat].resource = e.s]
        /\ dpc' = IF e.rc # DIS_SUCCESS THEN "exit" ELSE "value"
    /\ UNCHANGED <<di, numpat, pat, patprior, hasresc, nfree, ppatt, ppatt0,
                   dret>>

\* lines 120-121: pat->value = disrst(sock, &rc); if (rc) break;
ReadValue ==
    /\ dpc = "value"
    /\ \E e \in disrst("value", WireValues) :
        /\ trace' = Append(trace, e)
        /\ drc' = e.rc
        /\ heap' = [heap EXCEPT ![pat].value = e.s]
        /\ dpc' = IF e.rc # DIS_SUCCESS THEN "exit" ELSE "op"
    /\ UNCHANGED <<di, numpat, pat, patprior, hasresc, nfree, ppatt, ppatt0,
                   dret>>

\* lines 123-133: pat->op = (enum batch_op)disrui(sock, &rc); if (rc) break;
\* then the entry is linked, patprior = pat, ++i and the loop test
ReadOp ==
    /\ dpc = "op"
    /\ \E e \in disrui("op", WireOps) :
        /\ trace' = Append(trace, e)
        /\ drc' = e.rc
        /\ IF e.rc # DIS_SUCCESS
           THEN /\ heap' = [heap EXCEPT ![pat].op = e.n]
                /\ dpc' = "exit"
                /\ UNCHANGED <<di, patprior, ppatt>>
           ELSE LET l == LinkEntry([heap EXCEPT ![pat].op = e.n], ppatt,
                                   patprior, pat, di)
                IN /\ heap' = l.heap
                   /\ ppatt' = l.head
                   /\ patprior' = pat
                   /\ di' = di + 1
                   /\ dpc' = LoopTest(di + 1, numpat)
    /\ UNCHANGED <<numpat, pat, hasresc, nfree, ppatt0, dret>>

\* lines 135-137: if (rc) PBS_free_aopl(pat); return rc;
Exit ==
    /\ dpc = "exit"
    /\ nfree' = IF drc # DIS_SUCCESS
                THEN PBS_free_aopl(heap, nfree, pat, Len(heap))
                ELSE nfree
    /\ dret' = drc
    /\ dpc' = "done"
    /\ UNCHANGED <<di, numpat, pat, patprior, drc, hasresc, heap, ppatt,
                   ppatt0, trace>>


(***************************************************************************)
(* svr_resccost.c: the resource cost attribute                             *)
(***************************************************************************)
\* the attributes of the model: A, the attribute a request updates, and B,
\* the temporary attribute the new value was decoded into
Attrs == {"A", "B"}

\* return values (pbs_error.h); 0 is success
PBSE_NONE == "0"
PBSE_SYSTEM == "PBSE_SYSTEM"
PBSE_INTERNAL == "PBSE_INTERNAL"
PBSE_UNKRESC == "PBSE_UNKRESC"

\* at_flags bits
ATR_VFLAG_SET == "SET"
ATR_VFLAG_MODIFY == "MODIFY"
ATR_VFLAG_MODCACHE == "MODCACHE"

\* enum batch_op values handed to set_rcost
BatchOps == {"SET", "INCR", "DECR", "UNSET"}

\* svr_resc_def: the names of the resource definitions, by index
svr_resc_def == <<"ncpus", "mem">>
svr_resc_size == Len(svr_resc_def)

\* resource names a caller may pass: registered, unregistered, null
RescArgs == {"ncpus", "mem", "bogus", NullStr}

\* a char * value that is null, as a character sequence
NullChars == <<NullStr>>

\* value strings a caller may pass, as character sequences
ValArgs == {<<"1">>, <<"-", "1">>, <<"x", "1">>, NullChars}

\* find_resc_def(svr_resc_def, name, svr_resc_size): index of the
\* definition, or NULL
find_resc_def(name) ==
    IF \E d \in 1..svr_resc_size : svr_resc_def[d] = name
    THEN CHOOSE d \in 1..svr_resc_size : svr_resc_def[d] = name
    ELSE NULL

\* atol(3): optional blanks, optional sign, then decimal digits up to the
\* first character that is none
Digits == <<"0", "1", "2", "3", "4", "5", "6", "7", "8", "9">>
IsDigit(c) == \E d \in 1..Len(Digits) : Digits[d] = c
DigitOf(c) == (CHOOSE d \in 1..Len(Digits) : Digits[d] = c) - 1

RECURSIVE SkipBlanks(_, _)
SkipBlanks(str, k) ==
    IF k <= Len(str) /\ str[k] = " " THEN SkipBlanks(str, k + 1) ELSE k

RECURSIVE AtolDigits(_, _, _)
AtolDigits(str, k, acc) ==
    IF k > Len(str) \/ ~IsDigit(str[k]) THEN acc
    ELSE AtolDigits(str, k + 1, acc * 10 + DigitOf(str[k]))

atol(str) ==
    LET k == SkipBlanks(str, 1)
    IN IF k > Len(str) THEN 0
       ELSE IF str[k] = "-" THEN 0 - AtolDigits(str, k + 1, 0)
       ELSE IF str[k] = "+" THEN AtolDigits(str, k + 1, 0)
       ELSE AtolDigits(str, k, 0)

\* position of the entry of list l whose rc_def is d, or 0: the GET_NEXT
\* loops of decode_rcost and set_rcost
FindEntry(l, d) ==
    IF \E k \in 1..Len(l) : l[k].rc_def = d
    THEN CHOOSE k \in 1..Len(l) :
            l[k].rc_def = d /\ \A j \in 1..(k - 1) : l[j].rc_def # d
    ELSE 0

\* add_cost_entry with the new entry's cost left at one
add_cost_entry_cost_one(l, d) == Append(l, [rc_def |-> d, rc_cost |-> 1])

\* add_cost_entry: a zero-cost entry for d appended to the list
add_cost_entry(l, d) == Append(l, [rc_def |-> d, rc_cost |-> 0])

\* free_rcost with the entries freed but left on the list
free_rcost_keeps_links(at) ==
    [flags |-> at.flags \ {ATR_VFLAG_SET}, list |-> at.list]

\* free_rcost: every entry unlinked and freed, SET cleared
free_rcost(at) ==
    [flags |-> at.flags \ {ATR_VFLAG_SET}, list |-> <<>>]

\* decode_rcost with the lookup loop left out: an entry is always added
decode_rcost_always_add(at, rescn, val, mallocok) ==
    IF val = NullChars \/ rescn = NullStr
    THEN [at |-> [at EXCEPT !.flags = (@ \ {ATR_VFLAG_SET}) \cup {ATR_VFLAG_MODIFY}],
          rc |-> PBSE_NONE]
    ELSE LET a1 == IF ATR_VFLAG_SET \in at.flags THEN free_rcost(at) ELSE at
             prdef == find_resc_def(rescn)
         IN IF prdef = NULL THEN [at |-> a1, rc |-> PBSE_UNKRESC]
            ELSE IF ~mallocok THEN [at |-> a1, rc |-> PBSE_SYSTEM]
            ELSE LET l1 == add_cost_entry(a1.list, prdef)
                 IN [at |-> [flags |-> a1.flags \cup {ATR_VFLAG_SET,
                                       ATR_VFLAG_MODIFY, ATR_VFLAG_MODCACHE},
                             list |-> [l1 EXCEPT ![Len(l1)].rc_cost = atol(val)]],
                     rc |-> PBSE_NONE]

\* decode_rcost(patr, name, rescn, val): the attribute afterwards and the
\* value returned; mallocok says whether add_cost_entry's malloc succeeds
decode_rcost(at, rescn, val, mallocok) ==
    IF val = NullChars \/ rescn = NullStr
    THEN [at |-> [at EXCEPT !.flags = (@ \ {ATR_VFLAG_SET}) \cup {ATR_VFLAG_MODIFY}],
          rc |-> PBSE_NONE]
    ELSE LET a1 == IF ATR_VFLAG_SET \in at.flags THEN free_rcost(at) ELSE at
             prdef == find_resc_def(rescn)
         IN IF prdef = NULL THEN [at |-> a1, rc |-> PBSE_UNKRESC]
            ELSE LET k == FindEntry(a1.list, prdef)
                 IN IF k = 0 /\ ~mallocok THEN [at |-> a1, rc |-> PBSE_SYSTEM]
                    ELSE LET l1 == IF k = 0 THEN add_cost_entry(a1.list, prdef)
                                   ELSE a1.list
                             k1 == IF k = 0 THEN Len(l1) ELSE k
                         IN [at |-> [flags |-> a1.flags \cup {ATR_VFLAG_SET,
                                        ATR_VFLAG_MODIFY, ATR_VFLAG_MODCACHE},
                                     list |-> [l1 EXCEPT ![k1].rc_cost = atol(val)]],
                             rc |-> PBSE_NONE]

\* the switch of set_rcost with SET adding to the old cost
ApplyOpSetAdds(op, oldcost, newcost) ==
    CASE op = "SET" -> oldcost + newcost
      [] op = "INCR" -> oldcost + newcost
      [] op = "DECR" -> oldcost - newcost
      [] OTHER -> oldcost

\* the switch of set_rcost on one entry
ApplyOp(op, oldcost, newcost) ==
    CASE op = "SET" -> newcost
      [] op = "INCR" -> oldcost + newcost
      [] op = "DECR" -> oldcost - newcost
      [] OTHER -> oldcost

\* the while loop of set_rcost from the k-th entry of the source list on;
\* mfail = n > 0 makes the n-th malloc of the call fail
RECURSIVE SetLoop(_, _, _, _, _)
SetLoop(oldl, newl, k, op, mfail) ==
    IF k > Len(newl) THEN [list |-> oldl, rc |-> PBSE_NONE]
    ELSE LET j == FindEntry(oldl, newl[k].rc_def)
         IN IF j = 0 /\ mfail = 1 THEN [list |-> oldl, rc |-> PBSE_SYSTEM]
            ELSE LET l1 == IF j = 0 THEN add_cost_entry(oldl, newl[k].rc_def)
                           ELSE oldl
                     j1 == IF j = 0 THEN Len(l1) ELSE j
                     m1 == IF j = 0 /\ mfail > 0 THEN mfail - 1 ELSE mfail
                 IN IF op \notin {"SET", "INCR", "DECR"}
                    THEN [list |-> l1, rc |-> PBSE_INTERNAL]
                    ELSE SetLoop([l1 EXCEPT ![j1].rc_cost =
                                     ApplyOp(op, @, newl[k].rc_cost)],
                                 newl, k + 1, op, m1)

\* set_rcost(old, new, op): the target afterwards and the value returned
set_rcost(old, new, op, mfail) ==
    LET r == SetLoop(old.list, new.list, 1, op, mfail)
    IN IF r.rc # PBSE_NONE THEN [at |-> [old EXCEPT !.list = r.list], rc |-> r.rc]
       ELSE [at |-> [flags |-> old.flags \cup {ATR_VFLAG_SET, ATR_VFLAG_MODIFY,
                                               ATR_VFLAG_MODCACHE},
                     list |-> r.list],
             rc |-> PBSE_NONE]

\* every cost of the attribute is within the model's range
InRange(at) ==
    \A k \in 1..Len(at.list) :
        at.list[k].rc_cost \in (0 - MaxCost)..MaxCost

CostInit ==
    /\ attr = [a \in Attrs |-> [flags |-> {}, list |-> <<>>]]
    /\ cret = PBSE_NONE

\* a call of decode_rcost on attribute a
DecodeRcost(a, rescn, val, mallocok) ==
    LET r == decode_rcost(attr[a], rescn, val, mallocok)
    IN /\ InRange(r.at)
       /\ attr' = [attr EXCEPT ![a] = r.at]
       /\ cret' = r.rc

\* a call of set_rcost with target old and source new; the assert of line
\* 247 is the guard
SetRcost(old, new, op, mfail) ==
    /\ ATR_VFLAG_SET \in attr[new].flags
    /\ LET r == set_rcost(attr[old], attr[new], op, mfail)
       IN /\ InRange(r.at)
          /\ attr' = [attr EXCEPT ![old] = r.at]
          /\ cret' = r.rc

\* a call of free_rcost on attribute a; it returns nothing
FreeRcost(a) ==
    /\ attr' = [attr EXCEPT ![a] = free_rcost(attr[a])]
    /\ cret' = cret

(***************************************************************************)
(* svr_resccost.c: runs of the functions on drawn inputs                   *)
(***************************************************************************)
\* the at_flags an attribute can have come to hold
CostFlags ==
    {{}, {ATR_VFLAG_MODIFY}, {ATR_VFLAG_MODIFY, ATR_VFLAG_MODCACHE},
     {ATR_VFLAG_SET, ATR_VFLAG_MODIFY, ATR_VFLAG_MODCACHE}}

\* the entry lists an attribute can have come to hold: one entry at most
\* for a definition, in any order, with costs in the model's range
CostLists ==
    {l \in UNION {[1..n -> [rc_def : 1..svr_resc_size,
                            rc_cost : (0 - MaxCost)..MaxCost]] :
                  n \in 0..svr_resc_size} :
        \A j, k \in 1..Len(l) : l[j].rc_def = l[k].rc_def => j = k}

\* the attributes a call can be made on: as constructed, after calls that
\* succeeded, after a decode_rcost that cleared SET and kept the list, and
\* after a set_rcost that wrote some entries and then failed, which leaves
\* the flags as they were.  SET is never held with an empty list.
CostAttrs ==
    {at \in [flags : CostFlags, list : CostLists] :
        ATR_VFLAG_SET \in at.flags => at.list # <<>>}

\* an attribute as constructed
UnsetAttr == [flags |-> {}, list |-> <<>>]

\* no run of this part is being made
RunIdle ==
    /\ spc = "idle"
    /\ sin = <<>>
    /\ sx = UnsetAttr
    /\ sy = UnsetAttr
    /\ sout = <<>>
    /\ srel = <<>>

\* ---- one call of set_rcost ----
SetInit ==
    /\ spc = "start"
    /\ sin \in [target : CostAttrs,
                source : {at \in CostAttrs : ATR_VFLAG_SET \in at.flags},
                op : BatchOps, mfail : 0..MaxMallocFail]
    /\ sx = sin.target
    /\ sy = UnsetAttr
    /\ sout = <<>>
    /\ srel = <<>>

\* set_rcost(target, source, op); sout takes the value returned
RunSet ==
    /\ spc = "start"
    /\ LET r == set_rcost(sin.target, sin.source, sin.op, sin.mfail)
       IN /\ sx' = r.at
          /\ sout' = <<r.rc>>
    /\ spc' = "done"
    /\ UNCHANGED <<sin, sy, srel>>

\* sprintf(buf, "%ld", n): the decimal digits of n, most significant first,
\* behind a minus sign when n is negative
RECURSIVE DecimalDigits(_)
DecimalDigits(n) ==
    IF n < 10 THEN <<Digits[n + 1]>>
    ELSE Append(DecimalDigits(n \div 10), Digits[(n % 10) + 1])

\* the digits of the magnitude, the sign left out
sprintf_ld_no_sign(n) ==
    IF n < 0 THEN DecimalDigits(0 - n) ELSE DecimalDigits(n)

sprintf_ld(n) ==
    IF n < 0 THEN <<"-">> \o DecimalDigits(0 - n) ELSE DecimalDigits(n)

\* attrlist_create(aname, rname, vsize): a svrattrl with the two names, an
\* empty value buffer, no flags and no sister
attrlist_create(aname, rname) ==
    [al_name |-> aname, al_resc |-> rname, al_value |-> <<>>,
     al_flags |-> {}, al_sister |-> NULL]

\* lines 210-217 without the sister link
LinkTupleNoSister(ph, rtnl, first, xprior, id) ==
    [phead |-> ph,
     rtnl |-> IF first /\ rtnl # <<>> THEN <<id>> ELSE rtnl]

\* lines 210-217: the first tuple is handed back through rtnl when rtnl is
\* not null, a later one becomes the sister of the tuple before it
LinkTuple(ph, rtnl, first, xprior, id) ==
    IF first
    THEN [phead |-> ph, rtnl |-> IF rtnl # <<>> THEN <<id>> ELSE rtnl]
    ELSE [phead |-> [ph EXCEPT ![xprior].al_sister = id], rtnl |-> rtnl]

\* the while loop of encode_rcost from the k-th entry on; a tuple is known
\* by its place on phead; mfail = n > 0 makes the n-th attrlist_create fail
RECURSIVE EncodeLoop(_, _, _, _, _, _, _, _)
EncodeLoop(at, k, ph, atname, rtnl, first, xprior, mfail) ==
    IF k > Len(at.list) THEN [rc |-> 1, phead |-> ph, rtnl |-> rtnl]
    ELSE IF mfail = 1 THEN [rc |-> 0 - 1, phead |-> ph, rtnl |-> rtnl]
    ELSE LET pal == [attrlist_create(atname, svr_resc_def[at.list[k].rc_def])
                        EXCEPT !.al_value = sprintf_ld(at.list[k].rc_cost),
                               !.al_flags = at.flags]
             id == Len(ph) + 1
             r == LinkTuple(Append(ph, pal), rtnl, first, xprior, id)
         IN EncodeLoop(at, k + 1, r.phead, atname, r.rtnl, FALSE, id,
                       IF mfail > 0 THEN mfail - 1 ELSE mfail)

\* encode_rcost(attr, phead, atname, rsname, mode, rtnl): attr is <<>> when
\* null, rtnl is <<>> when null and else holds *rtnl; the list behind
\* phead, *rtnl and the value returned
encode_rcost(attr_, ph, atname, rtnl, mfail) ==
    IF attr_ = <<>> THEN [rc |-> 0 - 1, phead |-> ph, rtnl |-> rtnl]
    ELSE IF ATR_VFLAG_SET \notin attr_[1].flags
    THEN [rc |-> 0, phead |-> ph, rtnl |-> rtnl]
    ELSE EncodeLoop(attr_[1], 1, ph, atname, rtnl, TRUE, NULL, mfail)

\* the name the attribute is encoded under
AtName == "resource_cost"

\* ---- decode, encode, decode what was emitted ----
TripInit ==
    /\ spc = "start"
    /\ sin \in [start : {UnsetAttr} \cup
                        {at \in CostAttrs : ATR_VFLAG_SET \in at.flags},
                r : {svr_resc_def[d] : d \in 1..svr_resc_size},
                c : (0 - MaxTripCost)..MaxTripCost,
                again : {"fresh", "same"},
                mallocok : BOOLEAN,
                mfail : {0, 1}]
    /\ sx = sin.start
    /\ sy = UnsetAttr
    /\ sout = <<>>
    /\ srel = <<>>

\* decode_rcost(attribute, name, r, the decimal string of c)
RunDecode ==
    /\ spc = "start"
    /\ LET r == decode_rcost(sx, sin.r, sprintf_ld(sin.c), sin.mallocok)
       IN /\ sx' = r.at
          /\ spc' = IF r.rc = PBSE_NONE THEN "decoded" ELSE "failed"
    /\ UNCHANGED <<sin, sy, sout, srel>>

\* encode_rcost of that attribute onto an empty list
RunEncode ==
    /\ spc = "decoded"
    /\ LET r == encode_rcost(<<sx>>, <<>>, AtName, <<NULL>>, sin.mfail)
       IN /\ sout' = r
          /\ spc' = IF r.rc > 0 THEN "encoded" ELSE "failed"
    /\ UNCHANGED <<sin, sx, sy, srel>>

\* decode_rcost of the resource name and value of the tuple handed back,
\* into a new attribute or into the one that was encoded
RunDecodeAgain ==
    /\ spc = "encoded"
    /\ sout.rtnl # <<NULL>>
    /\ LET pal == sout.phead[sout.rtnl[1]]
           r == decode_rcost(IF sin.again = "fresh" THEN UnsetAttr ELSE sx,
                             pal.al_resc, pal.al_value, TRUE)
       IN /\ sy' = r.at
          /\ spc' = IF r.rc = PBSE_NONE THEN "done" ELSE "failed"
    /\ UNCHANGED <<sin, sx, sout, srel>>

\* the attribute a decode_rcost of (r, the decimal string of c) gives
Decoded(r, c) == decode_rcost(UnsetAttr, r, sprintf_ld(c), TRUE).at

\* ---- INCR or DECR by a and then by b, next to one call by a + b ----
AssocInit ==
    /\ spc = "start"
    /\ sin \in [target : {UnsetAttr} \cup
                         {Decoded(svr_resc_def[d], c) :
                             d \in 1..svr_resc_size,
                             c \in (0 - MaxOperand)..MaxOperand},
                r : {svr_resc_def[d] : d \in 1..svr_resc_size},
                a : (0 - MaxOperand)..MaxOperand,
                b : (0 - MaxOperand)..MaxOperand,
                op : {"INCR", "DECR"},
                mfail : {0, 1}]
    /\ sx = sin.target
    /\ sy = sin.target
    /\ sout = <<>>
    /\ srel = <<>>

\* set_rcost(target, source (r, a), op)
RunFirst ==
    /\ spc = "start"
    /\ LET r == set_rcost(sx, Decoded(sin.r, sin.a), sin.op, sin.mfail)
       IN /\ sx' = r.at
          /\ sout' = Append(sout, r.rc)
    /\ spc' = "first"
    /\ UNCHANGED <<sin, sy, srel>>

\* then set_rcost(target, source (r, b), op)
RunSecond ==
    /\ spc = "first"
    /\ LET r == set_rcost(sx, Decoded(sin.r, sin.b), sin.op, 0)
       IN /\ sx' = r.at
          /\ sout' = Append(sout, r.rc)
    /\ spc' = "second"
    /\ UNCHANGED <<sin, sy, srel>>

\* set_rcost(a copy of the target, source (r, a + b), op)
RunSingle ==
    /\ spc = "second"
    /\ LET r == set_rcost(sy, Decoded(sin.r, sin.a + sin.b), sin.op, 0)
       IN /\ sy' = r.at
          /\ sout' = Append(sout, r.rc)
    /\ spc' = "done"
    /\ UNCHANGED <<sin, sx, srel>>

\* ---- one call of encode_rcost ----
\* a tuple another attribute's encode put on the list before
OtherTuple ==
    [attrlist_create("priority", NullStr) EXCEPT !.al_value = <<"7">>]

EncInit ==
    /\ spc = "start"
    /\ sin \in [at : {<<>>} \cup {<<at>> : at \in CostAttrs},
                phead : {<<>>, <<OtherTuple>>},
                rtnl : {<<>>, <<NULL>>},
                mfail : 0..MaxMallocFail]
    /\ sx = UnsetAttr
    /\ sy = UnsetAttr
    /\ sout = <<>>
    /\ srel = <<>>

\* encode_rcost(attr, phead, atname, rsname, mode, rtnl)
RunEncodeAny ==
    /\ spc = "start"
    /\ sout' = encode_rcost(sin.at, sin.phead, AtName, sin.rtnl, sin.mfail)
    /\ spc' = "done"
    /\ UNCHANGED <<sin, sx, sy, srel>>

\* ---- free_rcost, and free_rcost again ----
\* the list with each entry given its address, here its place at the start
WithIds(l) ==
    [k \in 1..Len(l) |->
        [rc_def |-> l[k].rc_def, rc_cost |-> l[k].rc_cost, id |-> k]]

\* the entries a free_rcost call hands to free(): those on the list, each
\* unlinked before it is freed
FreedBy(at) == {at.list[k].id : k \in 1..Len(at.list)}

FreeInit ==
    /\ spc = "start"
    /\ sin \in [at : CostAttrs]
    /\ sx = [flags |-> sin.at.flags, list |-> WithIds(sin.at.list)]
    /\ sy = sx
    /\ sout = <<>>
    /\ srel = [k \in 1..Len(sin.at.list) |-> 0]

\* free_rcost(pattr); sy keeps the attribute as it was before the call
RunFree ==
    /\ spc \in {"start", "freed"}
    /\ srel' = [id \in DOMAIN srel |->
                   IF id \in FreedBy(sx) THEN srel[id] + 1 ELSE srel[id]]
    /\ sy' = sx
    /\ sx' = free_rcost(sx)
    /\ spc' = IF spc = "start" THEN "freed" ELSE "done"
    /\ UNCHANGED <<sin, sout>>

(***************************************************************************)
(* queue_recov_db.c: que_save_db and que_recov_db                          *)
(***************************************************************************)
\* queue names, queue types and attribute values of the model; a type is
\* non-zero, que_alloc leaves it 0
QNames == {"workq", "express"}
QTypes == {1}
AttrUnset == "unset"
AttrVals == {AttrUnset, "set"}
QAttrIdx == 1..QA_ATR_LAST

\* save modes: QUE_SAVE_NEW, QUE_SAVE_FULL, and any other value
QUE_SAVE_NEW == "QUE_SAVE_NEW"
QUE_SAVE_FULL == "QUE_SAVE_FULL"
SaveModes == {QUE_SAVE_NEW, QUE_SAVE_FULL, "QUE_SAVE_QS"}

pbs_server_id == "1"

\* the time the store stamps on a row it writes; a record in memory that
\* was never loaded has time 0
StoreTime == 1
NoTime == 0

\* the pbs_queue records a caller may pass to que_save_db
Queues ==
    [qu_name : QNames, qu_type : QTypes, qu_ctime : {NoTime},
     qu_mtime : {NoTime}, qu_attr : [QAttrIdx -> AttrVals]]

\* que_alloc(name): a zeroed record carrying the name, every attribute unset
que_alloc(name) ==
    [qu_name |-> name, qu_type |-> 0, qu_ctime |-> NoTime, qu_mtime |-> NoTime,
     qu_attr |-> [k \in QAttrIdx |-> AttrUnset]]

\* the local dbque before anything is stored in it
EmptyDbque ==
    [qu_name |-> NullStr, qu_sv_name |-> NullStr, qu_type |-> 0,
     qu_ctime |-> NoTime, qu_mtime |-> NoTime]

\* svr_to_db_que with the type left out
svr_to_db_que_no_type(pque, pdbque) ==
    [pdbque EXCEPT !.qu_name = pque.qu_name, !.qu_sv_name = pbs_server_id]

\* svr_to_db_que(pque, pdbque): name, server id and type
svr_to_db_que(pque, pdbque) ==
    [pdbque EXCEPT !.qu_name = pque.qu_name, !.qu_sv_name = pbs_server_id,
                   !.qu_type = pque.qu_type]

\* db_to_svr_que(pque, pdbque): name, type and the two times
db_to_svr_que(pque, pdbque) ==
    [pque EXCEPT !.qu_name = pdbque.qu_name, !.qu_type = pdbque.qu_type,
                 !.qu_ctime = pdbque.qu_ctime, !.qu_mtime = pdbque.qu_mtime]

\* the store: a row or none per queue name, and the attribute rows of each
\* parent, "absent" where no attribute row is kept
AttrAbsent == "absent"
EmptyStore ==
    [que |-> [n \in QNames |-> <<>>],
     attr |-> [n \in QNames |-> [k \in QAttrIdx |-> AttrAbsent]]]

\* pbs_db_insert_obj: a new row stamped by the store; the name is the key
StoreInsert(st, row) ==
    [st EXCEPT !.que[row.qu_name] =
        <<[row EXCEPT !.qu_ctime = StoreTime, !.qu_mtime = StoreTime]>>]

\* pbs_db_delete_obj: the row goes, and its attribute rows with it
StoreDelete(st, row) ==
    [st EXCEPT !.que[row.qu_name] = <<>>,
               !.attr[row.qu_name] = [k \in QAttrIdx |-> AttrAbsent]]

\* pbs_db_update_obj: the row's fields rewritten, the modification time
\* stamped
StoreUpdate(st, row) ==
    [st EXCEPT !.que[row.qu_name] =
        <<[st.que[row.qu_name][1] EXCEPT !.qu_type = row.qu_type,
                                         !.qu_mtime = StoreTime]>>]

\* save_attr_db(conn, attr_info, que_attr_def, pattr, QA_ATR_LAST, newparent):
\* a new parent gets a row per attribute that is set; otherwise every
\* attribute is written, an unset one removing its row
StoreSaveAttr(st, parent, pattr, newparent) ==
    [st EXCEPT !.attr[parent] =
        [k \in QAttrIdx |->
            IF pattr[k] # AttrUnset THEN pattr[k]
            ELSE IF newparent = 1 THEN @[k]
            ELSE AttrAbsent]]

\* recov_attr_db: every attribute row of the parent is decoded into the
\* record's array; the others stay as que_alloc left them
StoreRecovAttr(st, parent, pattr) ==
    [k \in QAttrIdx |->
        IF st.attr[parent][k] # AttrAbsent THEN st.attr[parent][k]
        ELSE pattr[k]]

\* one store call and its status
Call(f, rc) == [f |-> f, rc |-> rc]

\* the statuses a store call may return: 0, or failure
StoreRcs == {0, 1}

QueInit ==
    /\ qpc = "idle"
    /\ qcall = [fn |-> "none", mode |-> NullStr, pque |-> <<>>,
                qname |-> NullStr]
    /\ qlast = <<>>
    /\ calls = <<>>
    /\ db = EmptyStore
    /\ dbw = EmptyStore
    /\ intrx = FALSE
    /\ dbque = EmptyDbque
    /\ flag = 0
    /\ pq = <<>>
    /\ qfrees = 0
    /\ qret = [rc |-> 0, pq |-> <<>>]
    /\ panics = 0

\* qlast as the next call starts: the call just finished, when it was a
\* que_save_db(q, QUE_SAVE_NEW) whose store calls all succeeded
NextLast ==
    IF /\ qcall.fn = "que_save_db"
       /\ qcall.mode = QUE_SAVE_NEW
       /\ \A k \in 1..Len(calls) : calls[k].rc = 0
    THEN qcall.pque
    ELSE <<>>

\* the server has not been stopped by panic_stop_db
Running == qpc = "idle" /\ panics = 0

\* lines 145-155: que_save_db is called; svr_to_db_que fills dbque
SaveCall(q, mode) ==
    /\ Running
    /\ qcall' = [fn |-> "que_save_db", mode |-> mode, pque |-> <<q>>,
                 qname |-> q.qu_name]
    /\ qlast' = NextLast
    /\ calls' = <<>>
    /\ dbque' = svr_to_db_que(q, EmptyDbque)
    /\ flag' = 0
    /\ pq' = <<>>
    /\ qfrees' = 0
    /\ qpc' = "s_begin"
    /\ UNCHANGED <<db, dbw, intrx, qret, panics>>

\* pbs_db_begin_trx: on success a transaction is open
BeginTrx(rc) ==
    /\ calls' = Append(calls, Call("pbs_db_begin_trx", rc))
    /\ IF rc = 0 THEN intrx' = TRUE /\ dbw' = db
       ELSE UNCHANGED <<intrx, dbw>>
    /\ UNCHANGED db

\* pbs_db_end_trx(conn, PBS_DB_COMMIT): on success the transaction's
\* writes are the store's and the transaction is over
CommitTrx(rc) ==
    /\ calls' = Append(calls, Call("pbs_db_end_trx:COMMIT", rc))
    /\ IF rc = 0 /\ intrx THEN db' = dbw /\ intrx' = FALSE
       ELSE UNCHANGED <<db, intrx>>
    /\ UNCHANGED dbw

\* pbs_db_end_trx(conn, PBS_DB_ROLLBACK): the transaction's writes are
\* dropped; the status is ignored by both callers
RollbackTrx(rc) ==
    /\ calls' = Append(calls, Call("pbs_db_end_trx:ROLLBACK", rc))
    /\ dbw' = db
    /\ intrx' = FALSE
    /\ UNCHANGED db

\* lines 158-176 with QUE_SAVE_FULL going to the insert at once
SaveBeginNoDelete ==
    /\ qpc = "s_begin"
    /\ \E rc \in StoreRcs :
        /\ BeginTrx(rc)
        /\ qpc' = IF rc # 0 THEN "s_err"
                  ELSE IF qcall.mode \in {QUE_SAVE_NEW, QUE_SAVE_FULL}
                  THEN "s_insert"
                  ELSE "s_update"
    /\ UNCHANGED <<qcall, qlast, dbque, flag, pq, qfrees, qret, panics>>

\* lines 158-161, 166, 176
SaveBegin ==
    /\ qpc = "s_begin"
    /\ \E rc \in StoreRcs :
        /\ BeginTrx(rc)
        /\ qpc' = IF rc # 0 THEN "s_err"
                  ELSE IF qcall.mode = QUE_SAVE_NEW THEN "s_insert"
                  ELSE IF qcall.mode = QUE_SAVE_FULL THEN "s_delete"
                  ELSE "s_update"
    /\ UNCHANGED <<qcall, qlast, dbque, flag, pq, qfrees, qret, panics>>

\* line 172: pbs_db_delete_obj(conn, &obj); the status is not looked at
SaveDelete ==
    /\ qpc = "s_delete"
    /\ \E rc \in StoreRcs :
        /\ calls' = Append(calls, Call("pbs_db_delete_obj", rc))
        /\ dbw' = IF rc = 0 THEN StoreDelete(dbw, dbque) ELSE dbw
    /\ qpc' = "s_insert"
    /\ UNCHANGED <<qcall, qlast, db, intrx, dbque, flag, pq, qfrees, qret,
                   panics>>

\* lines 162-164 and 173-175: pbs_db_insert_obj; a row of that name in the
\* store makes it fail
SaveInsert ==
    /\ qpc = "s_insert"
    /\ \E rc \in StoreRcs :
        /\ rc = 0 => dbw.que[dbque.qu_name] = <<>>
        /\ calls' = Append(calls, Call("pbs_db_insert_obj", rc))
        /\ dbw' = IF rc = 0 THEN StoreInsert(dbw, dbque) ELSE dbw
        /\ flag' = IF rc = 0 THEN 1 ELSE flag
        /\ qpc' = IF rc # 0 THEN "s_err" ELSE "s_attr"
    /\ UNCHANGED <<qcall, qlast, db, intrx, dbque, pq, qfrees, qret, panics>>

\* lines 178-179: pbs_db_update_obj; no row of that name makes it fail
SaveUpdate ==
    /\ qpc = "s_update"
    /\ \E rc \in StoreRcs :
        /\ rc = 0 => dbw.que[dbque.qu_name] # <<>>
        /\ calls' = Append(calls, Call("pbs_db_update_obj", rc))
        /\ dbw' = IF rc = 0 THEN StoreUpdate(dbw, dbque) ELSE dbw
        /\ qpc' = IF rc # 0 THEN "s_err" ELSE "s_attr"
    /\ UNCHANGED <<qcall, qlast, db, intrx, dbque, flag, pq, qfrees, qret,
                   panics>>

\* lines 183-187: save_attr_db over pque->qu_attr with flag
SaveAttr ==
    /\ qpc = "s_attr"
    /\ \E rc \in StoreRcs :
        /\ calls' = Append(calls, [f |-> "save_attr_db", rc |-> rc,
                                   newparent |-> flag,
                                   pattr |-> qcall.pque[1].qu_attr])
        /\ dbw' = IF rc = 0
                  THEN StoreSaveAttr(dbw, dbque.qu_name,
                                     qcall.pque[1].qu_attr, flag)
                  ELSE dbw
        /\ qpc' = IF rc # 0 THEN "s_err" ELSE "s_commit"
    /\ UNCHANGED <<qcall, qlast, db, intrx, dbque, flag, pq, qfrees, qret,
                   panics>>

\* lines 189-192: pbs_db_end_trx(conn, PBS_DB_COMMIT); return (0)
SaveCommit ==
    /\ qpc = "s_commit"
    /\ \E rc \in StoreRcs :
        /\ CommitTrx(rc)
        /\ IF rc # 0 THEN qpc' = "s_err" /\ qret' = qret
           ELSE qpc' = "idle" /\ qret' = [rc |-> 0, pq |-> <<>>]
    /\ UNCHANGED <<qcall, qlast, dbque, flag, pq, qfrees, panics>>

\* lines 193-200 without the rollback
SaveErrNoRollback ==
    /\ qpc = "s_err"
    /\ panics' = panics + 1
    /\ qret' = [rc |-> 0 - 1, pq |-> <<>>]
    /\ qpc' = "idle"
    /\ UNCHANGED <<qcall, qlast, calls, db, dbw, intrx, dbque, flag, pq,
                   qfrees>>

\* lines 193-200, db_err: the rollback, panic_stop_db, return (-1)
SaveErr ==
    /\ qpc = "s_err"
    /\ \E rc \in StoreRcs : RollbackTrx(rc)
    /\ panics' = panics + 1
    /\ qret' = [rc |-> 0 - 1, pq |-> <<>>]
    /\ qpc' = "idle"
    /\ UNCHANGED <<qcall, qlast, dbque, flag, pq, qfrees>>

\* lines 215-233: que_recov_db is called; que_alloc may fail
RecovCall(qname, allocok) ==
    /\ Running
    /\ qcall' = [fn |-> "que_recov_db", mode |-> NullStr, pque |-> <<>>,
                 qname |-> qname]
    /\ qlast' = NextLast
    /\ calls' = <<>>
    /\ flag' = 0
    /\ qfrees' = 0
    /\ IF allocok
       THEN /\ pq' = <<que_alloc(qname)>>
            /\ dbque' = [EmptyDbque EXCEPT !.qu_name = qname]
            /\ qpc' = "r_begin"
            /\ qret' = qret
       ELSE /\ pq' = <<>>
            /\ dbque' = EmptyDbque
            /\ qpc' = "idle"
            /\ qret' = [rc |-> 0, pq |-> <<>>]
    /\ UNCHANGED <<db, dbw, intrx, panics>>

\* lines 235-236
RecovBegin ==
    /\ qpc = "r_begin"
    /\ \E rc \in StoreRcs :
        /\ BeginTrx(rc)
        /\ qpc' = IF rc # 0 THEN "r_err" ELSE "r_load"
    /\ UNCHANGED <<qcall, qlast, dbque, flag, pq, qfrees, qret, panics>>

\* lines 239-242: pbs_db_load_obj, which fails when no row has the name,
\* then db_to_svr_que
RecovLoad ==
    /\ qpc = "r_load"
    /\ \E rc \in StoreRcs :
        /\ rc = 0 => dbw.que[dbque.qu_name] # <<>>
        /\ calls' = Append(calls, Call("pbs_db_load_obj", rc))
        /\ IF rc = 0
           THEN LET row == dbw.que[dbque.qu_name][1]
                IN /\ dbque' = row
                   /\ pq' = <<db_to_svr_que(pq[1], row)>>
                   /\ qpc' = "r_attr"
           ELSE /\ UNCHANGED <<dbque, pq>>
                /\ qpc' = "r_err"
    /\ UNCHANGED <<qcall, qlast, db, dbw, intrx, flag, qfrees, qret, panics>>

\* lines 244-250: recov_attr_db into pq->qu_attr
RecovAttr ==
    /\ qpc = "r_attr"
    /\ \E rc \in StoreRcs :
        /\ calls' = Append(calls, Call("recov_attr_db", rc))
        /\ IF rc = 0
           THEN /\ pq' = <<[pq[1] EXCEPT !.qu_attr =
                             StoreRecovAttr(dbw, pq[1].qu_name, @)]>>
                /\ qpc' = "r_commit"
           ELSE /\ pq' = pq
                /\ qpc' = "r_err"
    /\ UNCHANGED <<qcall, qlast, db, dbw, intrx, dbque, flag, qfrees, qret,
                   panics>>

\* que_recov_db's commit with its status not looked at
RecovCommitUnchecked ==
    /\ qpc = "r_commit"
    /\ \E rc \in StoreRcs :
        /\ CommitTrx(rc)
        /\ qpc' = "idle" /\ qret' = [rc |-> 0, pq |-> pq]
    /\ UNCHANGED <<qcall, qlast, dbque, flag, pq, qfrees, panics>>

\* lines 252-256: pbs_db_end_trx(conn, PBS_DB_COMMIT); return (pq)
RecovCommit ==
    /\ qpc = "r_commit"
    /\ \E rc \in StoreRcs :
        /\ CommitTrx(rc)
        /\ IF rc # 0 THEN qpc' = "r_err" /\ qret' = qret
           ELSE qpc' = "idle" /\ qret' = [rc |-> 0, pq |-> pq]
    /\ UNCHANGED <<qcall, qlast, dbque, flag, pq, qfrees, panics>>

\* lines 257-262, db_err: the rollback, que_free(pq), return 0
RecovErr ==
    /\ qpc = "r_err"
    /\ \E rc \in StoreRcs : RollbackTrx(rc)
    /\ qfrees' = IF pq # <<>> THEN qfrees + 1 ELSE qfrees
    /\ qret' = [rc |-> 0, pq |-> <<>>]
    /\ qpc' = "idle"
    /\ UNCHANGED <<qcall, qlast, dbque, flag, pq, panics>>

(***************************************************************************)
(* The specifications                                                      *)
(***************************************************************************)
\* decode_DIS_attropl, one call
DecNext ==
    \/ ReadCount /\ UNCHANGED <<cvars, qvars, svars>>
    \/ ReadSize /\ UNCHANGED <<cvars, qvars, svars>>
    \/ Malloc /\ UNCHANGED <<cvars, qvars, svars>>
    \/ ReadName /\ UNCHANGED <<cvars, qvars, svars>>
    \/ ReadHasResc /\ UNCHANGED <<cvars, qvars, svars>>
    \/ ReadResource /\ UNCHANGED <<cvars, qvars, svars>>
    \/ ReadValue /\ UNCHANGED <<cvars, qvars, svars>>
    \/ ReadOp /\ UNCHANGED <<cvars, qvars, svars>>
    \/ Exit /\ UNCHANGED <<cvars, qvars, svars>>

InitDec == DecInit /\ CostInit /\ QueInit /\ RunIdle

SpecDec == InitDec /\ [][DecNext]_vars

\* any sequence of decode_rcost, set_rcost and free_rcost calls
CostNext ==
    \/ \E a \in Attrs, rescn \in RescArgs, val \in ValArgs, mallocok \in BOOLEAN :
          DecodeRcost(a, rescn, val, mallocok) /\ UNCHANGED <<dvars, qvars, svars>>
    \/ \E op \in BatchOps, mfail \in 0..MaxMallocFail :
          SetRcost("A", "B", op, mfail) /\ UNCHANGED <<dvars, qvars, svars>>
    \/ \E a \in Attrs : FreeRcost(a) /\ UNCHANGED <<dvars, qvars, svars>>

InitCost == DecStart(NULL) /\ CostInit /\ QueInit /\ RunIdle

SpecCost == InitCost /\ [][CostNext]_vars

\* any sequence of que_save_db and que_recov_db calls, until panic_stop_db
QueNext ==
    \/ \E q \in Queues, mode \in SaveModes :
          SaveCall(q, mode) /\ UNCHANGED <<dvars, cvars, svars>>
    \/ SaveBegin /\ UNCHANGED <<dvars, cvars, svars>>
    \/ SaveDelete /\ UNCHANGED <<dvars, cvars, svars>>
    \/ SaveInsert /\ UNCHANGED <<dvars, cvars, svars>>
    \/ SaveUpdate /\ UNCHANGED <<dvars, cvars, svars>>
    \/ SaveAttr /\ UNCHANGED <<dvars, cvars, svars>>
    \/ SaveCommit /\ UNCHANGED <<dvars, cvars, svars>>
    \/ SaveErr /\ UNCHANGED <<dvars, cvars, svars>>
    \/ \E qname \in QNames, allocok \in BOOLEAN :
          RecovCall(qname, allocok) /\ UNCHANGED <<dvars, cvars, svars>>
    \/ RecovBegin /\ UNCHANGED <<dvars, cvars, svars>>
    \/ RecovLoad /\ UNCHANGED <<dvars, cvars, svars>>
    \/ RecovAttr /\ UNCHANGED <<dvars, cvars, svars>>
    \/ RecovCommit /\ UNCHANGED <<dvars, cvars, svars>>
    \/ RecovErr /\ UNCHANGED <<dvars, cvars, svars>>

InitQue == DecStart(NULL) /\ CostInit /\ QueInit /\ RunIdle

SpecQue == InitQue /\ [][QueNext]_vars

\* one call of set_rcost on a drawn target and source
SetNext == RunSet /\ UNCHANGED <<dvars, cvars, qvars>>

InitSet == DecStart(NULL) /\ CostInit /\ QueInit /\ SetInit

SpecSet == InitSet /\ [][SetNext]_vars

\* two INCR or DECR calls on a target, and one call on a copy of it
AssocNext ==
    \/ RunFirst /\ UNCHANGED <<dvars, cvars, qvars>>
    \/ RunSecond /\ UNCHANGED <<dvars, cvars, qvars>>
    \/ RunSingle /\ UNCHANGED <<dvars, cvars, qvars>>

InitAssoc == DecStart(NULL) /\ CostInit /\ QueInit /\ AssocInit

SpecAssoc == InitAssoc /\ [][AssocNext]_vars

\* a decode_rcost, an encode_rcost of the result, a decode_rcost of the tuple
TripNext ==
    \/ RunDecode /\ UNCHANGED <<dvars, cvars, qvars>>
    \/ RunEncode /\ UNCHANGED <<dvars, cvars, qvars>>
    \/ RunDecodeAgain /\ UNCHANGED <<dvars, cvars, qvars>>

InitTrip == DecStart(NULL) /\ CostInit /\ QueInit /\ TripInit

SpecTrip == InitTrip /\ [][TripNext]_vars

\* one call of encode_rcost on a drawn attribute and list
EncNext == RunEncodeAny /\ UNCHANGED <<dvars, cvars, qvars>>

InitEnc == DecStart(NULL) /\ CostInit /\ QueInit /\ EncInit

SpecEnc == InitEnc /\ [][EncNext]_vars

\* free_rcost called twice in a row on a drawn attribute
FreeNext == RunFree /\ UNCHANGED <<dvars, cvars, qvars>>

InitFree == DecStart(NULL) /\ CostInit /\ QueInit /\ FreeInit

SpecFree == InitFree /\ [][FreeNext]_vars

(***************************************************************************)
(* Properties of decode_DIS_attropl                                        *)
(***************************************************************************)
\* the entries the call built
Built == 1..Len(heap)

\* the entries the call built that are still allocated
StillAllocated == {id \in Built : nfree[id] = 0}

\* the ids met by following next from p
RECURSIVE Walk(_, _, _)
Walk(hp, p, fuel) ==
    IF p = NULL \/ p \notin 1..Len(hp) \/ fuel = 0 THEN <<>>
    ELSE <<p>> \o Walk(hp, hp[p].next, fuel - 1)

\* the events of the trace of one kind, in order
EventsOf(f) == SelectSeq(trace, LAMBDA e : e.f = f)

\* every read and every malloc of the trace succeeded
AllSucceeded == \A k \in 1..Len(trace) : trace[k].rc = DIS_SUCCESS

\* the count was read, and what it was
CountRead == Len(trace) >= 1 /\ trace[1].f = "count" /\ trace[1].rc = DIS_SUCCESS
CountValue == trace[1].n

\* how many of the first k has-resource flags were non-zero
FlagsSet(k) == Cardinality({j \in 1..k : EventsOf("hasresc")[j].n # 0})

\* the k-th tuple as it came off the stream
StreamTuple(k) ==
    [name |-> EventsOf("name")[k].s,
     resource |-> IF EventsOf("hasresc")[k].n # 0
                  THEN EventsOf("resource")[FlagsSet(k)].s
                  ELSE NullStr,
     value |-> EventsOf("value")[k].s,
     op |-> EventsOf("op")[k].n]

\* the tuple an entry holds
EntryTuple(id) ==
    [name |-> heap[id].name, resource |-> heap[id].resource,
     value |-> heap[id].value, op |-> heap[id].op]

\* C1: when decode_DIS_attropl returns a non-zero status, no entry allocated
\* by the call is still allocated.
C1_NoEntryLeftOnFailure ==
    (dpc = "done" /\ dret # DIS_SUCCESS) => StillAllocated = {}

\* C2: when decode_DIS_attropl fails, the caller's head *ppatt does not
\* reference an entry built during the call.
C2_HeadNotPartialOnFailure ==
    (dpc = "done" /\ dret # DIS_SUCCESS) => ppatt \notin Built

\* C9: when the count read is N >= 1 and every read and malloc succeeds, the
\* call returns 0 and *ppatt heads a next-linked list of exactly N entries
\* holding the stream's tuples in stream order; the head is the first entry
\* decoded and the last entry's next is null.
C9_SuccessListInStreamOrder ==
    (dpc = "done" /\ CountRead /\ CountValue >= 1 /\ AllSucceeded) =>
        /\ dret = DIS_SUCCESS
        /\ LET ids == Walk(heap, ppatt, Len(heap) + 1)
           IN /\ Len(ids) = CountValue
              /\ ids[1] = 1
              /\ \A k \in 1..Len(ids) : EntryTuple(ids[k]) = StreamTuple(k)
              /\ heap[ids[Len(ids)]].next = NULL

\* a successful decode of two entries with different names, the second
\* carrying a resource and the first not
C9_Witness ==
    /\ dpc = "done" /\ CountRead /\ CountValue = 2 /\ AllSucceeded
    /\ dret = DIS_SUCCESS
    /\ Len(heap) = 2
    /\ heap[1].name # heap[2].name
    /\ heap[1].resource = NullStr /\ heap[2].resource # NullStr

\* C10: when the count read is 0 the call returns 0 and the caller's sequence
\* is empty, whatever *ppatt held before the call.
C10_ZeroCountGivesEmptyList ==
    (dpc = "done" /\ CountRead /\ CountValue = 0) =>
        (dret = DIS_SUCCESS /\ ppatt = NULL)

\* the transport reads of the trace, in order, the mallocs left out
Reads == SelectSeq(trace, LAMBDA e : e.f # "malloc")

\* the field the wire format has behind the one read by e
FieldAfter(e) ==
    CASE e.f = "count" -> "size"
      [] e.f = "size" -> "name"
      [] e.f = "name" -> "hasresc"
      [] e.f = "hasresc" -> IF e.n # 0 THEN "resource" ELSE "value"
      [] e.f = "resource" -> "value"
      [] e.f = "value" -> "op"
      [] e.f = "op" -> "size"

\* C19: decode_DIS_attropl reads the count first and then, per entry, the
\* reserved size, the name, the has-resource flag, the resource name exactly
\* when the flag is non-zero, the value and the operator, for no more
\* entries than the count; after the first read that fails no further
\* transport read is made.
C19_ReadOrder ==
    /\ Reads # <<>> => Reads[1].f = "count"
    /\ \A k \in 1..(Len(Reads) - 1) :
          /\ Reads[k].rc = DIS_SUCCESS
          /\ Reads[k + 1].f = FieldAfter(Reads[k])
    /\ CountRead => Len(EventsOf("size")) <= CountValue
    /\ (dpc = "done" /\ CountRead /\ AllSucceeded) =>
          Len(EventsOf("op")) = CountValue
    /\ \A k \in 1..(Len(trace) - 1) : trace[k].rc = DIS_SUCCESS

\* the call has returned after the resource name of its second entry could
\* not be read; the first entry had no resource name
C19_Witness ==
    /\ dpc = "done"
    /\ dret # DIS_SUCCESS
    /\ Len(EventsOf("hasresc")) = 2
    /\ EventsOf("hasresc")[1].n = 0
    /\ EventsOf("hasresc")[2].n # 0
    /\ Reads[Len(Reads)].f = "resource"
    /\ Reads[Len(Reads)].rc # DIS_SUCCESS

\* C21: decode_DIS_attropl never releases an entry that is still reachable
\* from *ppatt: at return, on success or failure, every entry built by the
\* call that is reachable from *ppatt over next links is still allocated,
\* and no entry is released twice.
C21_NoReachableEntryReleased ==
    /\ dpc = "done" =>
          \A k \in 1..Len(Walk(heap, ppatt, Len(heap) + 1)) :
              nfree[Walk(heap, ppatt, Len(heap) + 1)[k]] = 0
    /\ \A id \in Built : nfree[id] <= 1

(***************************************************************************)
(* Properties of the resource cost attribute                               *)
(***************************************************************************)
\* the attribute has SET
IsSet(at) == ATR_VFLAG_SET \in at.flags

\* no two entries of the list are for the same resource definition
NoDuplicateDef(l) ==
    \A j, k \in 1..Len(l) : l[j].rc_def = l[k].rc_def => j = k

\* C3: decode_rcost with a resource name that is not in the table returns
\* PBSE_UNKRESC and leaves the attribute's entry list and SET flag as they
\* were before the call.
C3_UnknownRescLeavesAttr ==
    [][\A a \in Attrs, val \in ValArgs \ {NullChars}, mallocok \in BOOLEAN :
          DecodeRcost(a, "bogus", val, mallocok) =>
              /\ cret' = PBSE_UNKRESC
              /\ attr'[a].list = attr[a].list
              /\ IsSet(attr'[a]) = IsSet(attr[a])]_vars

\* C7: from unset attributes with empty lists, after any sequence of
\* decode_rcost, set_rcost and free_rcost calls, an attribute without SET
\* has an empty entry list.
C7_UnsetMeansEmpty ==
    \A a \in Attrs : ~IsSet(attr[a]) => attr[a].list = <<>>

\* C8: after any sequence of decode_rcost, set_rcost and free_rcost calls an
\* attribute's list never holds two entries for the same resource definition.
C8_OneEntryPerDef ==
    \A a \in Attrs : NoDuplicateDef(attr[a].list)

\* both lists hold an entry for each definition, the target's after a
\* set_rcost that found or added them
C8_Witness ==
    /\ Len(attr["A"].list) = svr_resc_size
    /\ Len(attr["B"].list) = svr_resc_size
    /\ IsSet(attr["A"]) /\ IsSet(attr["B"])
    /\ attr["A"].list[1].rc_cost # 0

\* C11: decode_rcost with a null value or a null resource name returns
\* success and leaves the attribute with SET clear, MODIFY set and an empty
\* entry list, whatever the attribute held before the call.
C11_NullDecodeEmpties ==
    [][\A a \in Attrs, rescn \in RescArgs, val \in ValArgs, mallocok \in BOOLEAN :
          (/\ val = NullChars \/ rescn = NullStr
           /\ DecodeRcost(a, rescn, val, mallocok))
          => /\ cret' = PBSE_NONE
             /\ ~IsSet(attr'[a])
             /\ ATR_VFLAG_MODIFY \in attr'[a].flags
             /\ attr'[a].list = <<>>]_vars

\* C12: set_rcost with an operator other than SET, INCR and DECR, on a source
\* that has SET, returns an error and leaves the target's entry list and
\* flags exactly as they were, also when the target had no entry for a
\* resource of the source.
C12_BadOpLeavesTarget ==
    [][\A op \in BatchOps \ {"SET", "INCR", "DECR"}, mfail \in 0..MaxMallocFail :
          SetRcost("A", "B", op, mfail)
          => /\ cret' # PBSE_NONE
             /\ attr'["A"].list = attr["A"].list
             /\ attr'["A"].flags = attr["A"].flags]_vars

\* C13: after a successful set_rcost(target, source, SET), for every resource
\* with an entry in the source the target holds an entry for that resource
\* whose cost is the source's, whatever the target's cost was and whether
\* or not the target had the entry.
C13_SetOverwrites ==
    (spc = "done" /\ sin.op = "SET" /\ sout = <<PBSE_NONE>>) =>
        \A k \in 1..Len(sin.source.list) :
            LET j == FindEntry(sx.list, sin.source.list[k].rc_def)
            IN /\ j # 0
               /\ sx.list[j].rc_cost = sin.source.list[k].rc_cost
               /\ \A i \in 1..Len(sx.list) :
                     sx.list[i].rc_def = sin.source.list[k].rc_def => i = j

\* a successful SET from a source of two entries onto a target that had one
\* of them at another cost and lacked the other
C13_Witness ==
    /\ spc = "done" /\ sin.op = "SET" /\ sout = <<PBSE_NONE>>
    /\ Len(sin.source.list) = 2
    /\ Len(sin.target.list) = 1
    /\ \E k \in 1..2 :
          /\ sin.source.list[k].rc_def = sin.target.list[1].rc_def
          /\ sin.source.list[k].rc_cost # sin.target.list[1].rc_cost
          /\ sin.target.list[1].rc_cost # 0
    /\ Len(sx.list) = 2

\* the cost the list holds for the resource named r; the list has the entry
CostOf(l, r) == l[FindEntry(l, find_resc_def(r))].rc_cost

\* C14: for one resource r, set_rcost INCR with source (r, a) and then with
\* source (r, b) leaves the target as one INCR with source (r, a + b) does,
\* and likewise for DECR; a resource the target lacks starts from 0; a
\* target decoded as (ncpus, 5) and incremented by (ncpus, 3) holds 8.
C14_IncrDecrAdditive ==
    /\ (spc = "done" /\ sout = <<PBSE_NONE, PBSE_NONE, PBSE_NONE>>) =>
          /\ sx = sy
          /\ FindEntry(sin.target.list, find_resc_def(sin.r)) = 0 =>
                CostOf(sx.list, sin.r) =
                    IF sin.op = "INCR" THEN sin.a + sin.b
                    ELSE 0 - (sin.a + sin.b)
    /\ (/\ spc = "first" /\ sout = <<PBSE_NONE>>
        /\ sin.target.list = <<[rc_def |-> find_resc_def("ncpus"), rc_cost |-> 5]>>
        /\ sin.r = "ncpus" /\ sin.a = 3 /\ sin.op = "INCR")
       => sx.list = <<[rc_def |-> find_resc_def("ncpus"), rc_cost |-> 8]>>

\* (ncpus, 5) incremented by (ncpus, 3) and then by (ncpus, 2) holds 10, as
\* its copy incremented by (ncpus, 5) does
C14_Witness ==
    /\ spc = "done" /\ sout = <<PBSE_NONE, PBSE_NONE, PBSE_NONE>>
    /\ sin.target.list = <<[rc_def |-> find_resc_def("ncpus"), rc_cost |-> 5]>>
    /\ sin.r = "ncpus" /\ sin.a = 3 /\ sin.b = 2 /\ sin.op = "INCR"
    /\ CostOf(sx.list, "ncpus") = 10
    /\ CostOf(sy.list, "ncpus") = 10

\* C15: for a registered resource r and an integer c, decode_rcost of (r,
\* the decimal string of c), encode_rcost of the result and decode_rcost of
\* the emitted tuple's resource name and value give an attribute whose
\* payload is the single pair (r, c).
C15_DecodeEncodeDecode ==
    LET pair == <<[rc_def |-> find_resc_def(sin.r), rc_cost |-> sin.c]>>
    IN /\ spc \in {"decoded", "encoded", "done"} => sx.list = pair
       /\ spc \in {"encoded", "done"} => Len(sout.phead) = 1
       /\ spc = "done" => (sy.list = pair /\ IsSet(sy))

\* the trip of (mem, -12), begun on an attribute that held another payload
C15_Witness ==
    /\ spc = "done"
    /\ sin.r = "mem" /\ sin.c = 0 - 12
    /\ sin.start.list # <<>>
    /\ sout.phead[1].al_value = <<"-", "1", "2">>
    /\ sy.list = <<[rc_def |-> find_resc_def("mem"), rc_cost |-> 0 - 12]>>

\* the string is a decimal numeral: digits, behind at most one minus sign
IsDecimal(str) ==
    /\ str # <<>>
    /\ \A k \in 1..Len(str) : IsDigit(str[k]) \/ (k = 1 /\ str[k] = "-")
    /\ IsDigit(str[Len(str)])

\* C16: encode_rcost appends nothing and returns 0 when the attribute lacks
\* SET; when it has SET it appends one tuple per entry, in list order, each
\* with the entry's registered resource name and its cost in decimal, the
\* first handed back as the head and each later one made the sister of the
\* one before it.
C16_EncodeOneTuplePerEntry ==
    (spc = "done" /\ sin.at # <<>>) =>
        LET at == sin.at[1]
            n0 == Len(sin.phead)
            n == Len(at.list)
        IN /\ ~IsSet(at) =>
                 /\ sout.rc = 0
                 /\ sout.phead = sin.phead
                 /\ sout.rtnl = sin.rtnl
           /\ (IsSet(at) /\ sout.rc >= 0) =>
                 /\ Len(sout.phead) = n0 + n
                 /\ SubSeq(sout.phead, 1, n0) = sin.phead
                 /\ \A k \in 1..n :
                       /\ sout.phead[n0 + k].al_resc = svr_resc_def[at.list[k].rc_def]
                       /\ IsDecimal(sout.phead[n0 + k].al_value)
                       /\ atol(sout.phead[n0 + k].al_value) = at.list[k].rc_cost
                       /\ sout.phead[n0 + k].al_sister =
                              IF k < n THEN n0 + k + 1 ELSE NULL
                 /\ sin.rtnl # <<>> => sout.rtnl = <<n0 + 1>>

\* an attribute with SET and two entries encoded behind another attribute's
\* tuple, the second tuple the sister of the first and the first handed back
C16_Witness ==
    /\ spc = "done" /\ sin.at # <<>> /\ IsSet(sin.at[1])
    /\ Len(sin.at[1].list) = 2
    /\ sin.at[1].list[1].rc_cost < 0
    /\ sin.phead # <<>>
    /\ sout.rc = 1
    /\ Len(sout.phead) = 3
    /\ sout.rtnl = <<2>>
    /\ sout.phead[2].al_sister = 3
    /\ sout.phead[2].al_value = <<"-", "1">>

\* C17: free_rcost releases every entry of the attribute and clears SET; a
\* second call right after it changes nothing: the list stays empty, SET
\* stays clear and no entry is released a second time.
C17_FreeTwice ==
    /\ spc \in {"freed", "done"} =>
          /\ sx.list = <<>>
          /\ ~IsSet(sx)
          /\ sx.flags = sin.at.flags \ {ATR_VFLAG_SET}
          /\ \A id \in DOMAIN srel : srel[id] = 1
    /\ spc = "done" => sx = sy

\* both calls made on an attribute that had SET and two entries
C17_Witness ==
    /\ spc = "done"
    /\ IsSet(sin.at)
    /\ Len(sin.at.list) = 2
    /\ srel = <<1, 1>>
    /\ sx.list = <<>>

(***************************************************************************)
(* Properties of que_save_db and que_recov_db                              *)
(***************************************************************************)
\* the call named fn has returned
Returned(fn) == qpc = "idle" /\ qcall.fn = fn

\* a store call named f was made and reported failure / success
Failed(f) == \E k \in 1..Len(calls) : calls[k].f = f /\ calls[k].rc # 0
Succeeded(f) == \E k \in 1..Len(calls) : calls[k].f = f /\ calls[k].rc = 0
Issued(f) == \E k \in 1..Len(calls) : calls[k].f = f

\* every store call of the call succeeded, and there was one
AllCallsSucceeded ==
    calls # <<>> /\ \A k \in 1..Len(calls) : calls[k].rc = 0

\* C4: when a store call of que_save_db reports failure (begin, delete,
\* insert, update, save_attr_db or commit), the save does not end in a
\* successful commit and a return of 0: a rollback is issued and
\* panic_stop_db is called.
C4_SaveFailureEscalates ==
    (/\ Returned("que_save_db")
     /\ \E f \in {"pbs_db_begin_trx", "pbs_db_delete_obj", "pbs_db_insert_obj",
                  "pbs_db_update_obj", "save_attr_db", "pbs_db_end_trx:COMMIT"} :
            Failed(f))
    => /\ qret.rc # 0
       /\ Issued("pbs_db_end_trx:ROLLBACK")
       /\ panics >= 1

\* C5: when the begin, the load, the attribute recover or the commit of
\* que_recov_db fails, it returns NULL, que_free was called exactly once on
\* the record and a rollback was issued; a record is returned only when the
\* load, the attribute recover and the commit all succeeded.
C5_RecovFailureReleases ==
    Returned("que_recov_db") =>
        /\ (\E f \in {"pbs_db_begin_trx", "pbs_db_load_obj", "recov_attr_db",
                      "pbs_db_end_trx:COMMIT"} : Failed(f))
           => /\ qret.pq = <<>>
              /\ qfrees = 1
              /\ Issued("pbs_db_end_trx:ROLLBACK")
        /\ qret.pq # <<>>
           => /\ Succeeded("pbs_db_load_obj")
              /\ Succeeded("recov_attr_db")
              /\ Succeeded("pbs_db_end_trx:COMMIT")
              /\ qfrees = 0

\* que_recov_db has returned NULL after its commit failed
C5_Witness ==
    /\ Returned("que_recov_db")
    /\ Succeeded("recov_attr_db")
    /\ Failed("pbs_db_end_trx:COMMIT")
    /\ qret.pq = <<>>
    /\ qfrees = 1

\* C6: with every store call succeeding, que_save_db(q, QUE_SAVE_NEW)
\* followed at once by que_recov_db(q's name) returns a record with q's
\* name, type and attributes.
C6_SaveNewThenRecov ==
    (/\ Returned("que_recov_db")
     /\ qlast # <<>>
     /\ qlast[1].qu_name = qcall.qname
     /\ AllCallsSucceeded)
    => /\ qret.pq # <<>>
       /\ qret.pq[1].qu_name = qlast[1].qu_name
       /\ qret.pq[1].qu_type = qlast[1].qu_type
       /\ qret.pq[1].qu_attr = qlast[1].qu_attr

\* such a round trip of a queue with one attribute set and another unset,
\* next to a row of the other queue; the times come back as the store's
C6_Witness ==
    /\ Returned("que_recov_db")
    /\ qlast # <<>>
    /\ qlast[1].qu_name = qcall.qname
    /\ AllCallsSucceeded
    /\ \E j, k \in QAttrIdx :
          qlast[1].qu_attr[j] = AttrUnset /\ qlast[1].qu_attr[k] # AttrUnset
    /\ \E n \in QNames : n # qcall.qname /\ db.que[n] # <<>>
    /\ qret.pq # <<>>
    /\ qret.pq[1].qu_ctime # qlast[1].qu_ctime

\* the names of the store calls made so far, in order
CallNames == [k \in 1..Len(calls) |-> calls[k].f]

\* s is the beginning of t
IsPrefix(s, t) == Len(s) <= Len(t) /\ SubSeq(t, 1, Len(s)) = s

\* C18: in a que_save_db run whose store calls all succeed the calls are, in
\* order: begin; the row write of the mode (insert for QUE_SAVE_NEW, delete
\* then insert for QUE_SAVE_FULL, update for any other mode); save_attr_db
\* over the whole attribute array, its fresh-insert flag set exactly when
\* the mode is QUE_SAVE_NEW or QUE_SAVE_FULL; commit, which is last.
C18_SaveCallOrder ==
    (qcall.fn = "que_save_db" /\ \A k \in 1..Len(calls) : calls[k].rc = 0) =>
        LET fresh == qcall.mode \in {QUE_SAVE_NEW, QUE_SAVE_FULL}
            rowwrite == IF qcall.mode = QUE_SAVE_NEW
                        THEN <<"pbs_db_insert_obj">>
                        ELSE IF qcall.mode = QUE_SAVE_FULL
                        THEN <<"pbs_db_delete_obj", "pbs_db_insert_obj">>
                        ELSE <<"pbs_db_update_obj">>
            order == <<"pbs_db_begin_trx">> \o rowwrite \o
                     <<"save_attr_db", "pbs_db_end_trx:COMMIT">>
        IN /\ IsPrefix(CallNames, order)
           /\ qpc = "idle" => CallNames = order
           /\ \A k \in 1..Len(calls) :
                 calls[k].f = "save_attr_db" =>
                     /\ (calls[k].newparent # 0) = fresh
                     /\ calls[k].pattr = qcall.pque[1].qu_attr
                     /\ DOMAIN calls[k].pattr = 1..QA_ATR_LAST

\* a QUE_SAVE_FULL save that returned 0 after its five calls succeeded
C18_Witness ==
    /\ Returned("que_save_db")
    /\ qcall.mode = QUE_SAVE_FULL
    /\ AllCallsSucceeded
    /\ Len(calls) = 5
    /\ calls[4].f = "save_attr_db" /\ calls[4].newparent = 1
    /\ qret.rc = 0

\* the k-th store call is a pbs_db_end_trx
IsEndTrx(k) ==
    calls[k].f \in {"pbs_db_end_trx:COMMIT", "pbs_db_end_trx:ROLLBACK"}

\* the k-th store call is one whose status the caller tests, and it failed
CheckedFailure(k) ==
    calls[k].rc # 0 /\ calls[k].f \notin {"pbs_db_delete_obj",
                                          "pbs_db_end_trx:ROLLBACK"}

\* C20 as claimed: in que_save_db and que_recov_db pbs_db_end_trx, commit or
\* rollback, is called only on a transaction that was successfully begun in
\* that call and has not been ended: there is no rollback after a failed
\* begin, and no transaction gets both a commit call and a rollback call.
C20_EndOnlyOpenTrx ==
    \A k \in 1..Len(calls) :
        IsEndTrx(k) =>
            /\ calls[1].f = "pbs_db_begin_trx" /\ calls[1].rc = 0
            /\ \A j \in 1..(k - 1) : ~IsEndTrx(j)

\* C20 as amended: a commit is called only on a transaction successfully
\* begun in that call, after every tested store call succeeded, and before
\* any other pbs_db_end_trx; a rollback is called exactly when a tested
\* store call failed, a failed begin and a failed commit included, right
\* after that call and as the last store call, so never after a commit
\* that succeeded.
C20_CommitOpenRollbackOnFailure ==
    /\ \A k \in 1..Len(calls) :
          calls[k].f = "pbs_db_end_trx:COMMIT" =>
              /\ calls[1].f = "pbs_db_begin_trx" /\ calls[1].rc = 0
              /\ \A j \in 1..(k - 1) : ~IsEndTrx(j) /\ ~CheckedFailure(j)
    /\ \A k \in 1..Len(calls) :
          calls[k].f = "pbs_db_end_trx:ROLLBACK" =>
              /\ k = Len(calls)
              /\ k > 1 /\ CheckedFailure(k - 1)
              /\ \A j \in 1..(k - 1) : calls[j].f # "pbs_db_end_trx:ROLLBACK"
    /\ (qpc = "idle" /\ calls # <<>>) =>
          ((\E k \in 1..Len(calls) : CheckedFailure(k))
           <=> Issued("pbs_db_end_trx:ROLLBACK"))

\* que_save_db has returned after its begin failed and a rollback was
\* called with no transaction open
C20_Witness ==
    /\ Returned("que_save_db")
    /\ Len(calls) = 2
    /\ calls[1].f = "pbs_db_begin_trx" /\ calls[1].rc # 0
    /\ calls[2].f = "pbs_db_end_trx:ROLLBACK"
    /\ ~intrx

====
